---- MODULE Spec2Model ----
(***************************************************************************)
(* Seat reservation and booking engine of event-booking/backend            *)
(* (server.js, database.js): the seat_locks, bookings, booking_seats and   *)
(* payments tables, the request handlers that change them and the periodic *)
(* cleanExpiredLocks timer.  Node runs one handler at a time and sql.js is *)
(* synchronous, so a handler is atomic between its await points: only the  *)
(* payment handler has any (two), and is modelled as three steps.          *)
(***************************************************************************)
EXTENDS Integers, Sequences, FiniteSets, TLC

VARIABLES
  now,            \* wall clock, in minutes since day 0 00:00 UTC
  events,         \* rows of table events
  seat_locks,     \* rows of table seat_locks
  bookings,       \* rows of table bookings, in insertion order; the id is the index
  booking_seats,  \* rows of table booking_seats
  payments,       \* rows of table payments
  inflight,       \* payment requests suspended at an await
  last            \* the last HTTP response sent, with the request it answers

vars == <<now, events, seat_locks, bookings, booking_seats, payments, inflight, last>>

----------------------------------------------------------------------------
(* Bounds *)

MaxDay == 1
MaxBookings == 2
MaxInflight == 1
MaxPendingBookings == 1
MaxPayments == 2

----------------------------------------------------------------------------
(* Program constants and seeded tables *)

LOCK_DURATION_MINUTES == 10

MinutesPerDay == 24 * 60

\* Minutes of a day at which the model lets a request or a timer tick happen:
\* the start of the day and less than one lock duration before midnight.
MinuteMarks == {0, MinutesPerDay - 5}

Instants == {d * MinutesPerDay + m : d \in 0..MaxDay, m \in MinuteMarks}

\* Table seats: three seats of venue V1, one of each tier, and one of venue V2.
SeatsTable ==
  { [id |-> "A1", venue_id |-> "V1", row_label |-> "A", seat_number |-> 1, tier |-> "vip"],
    [id |-> "C1", venue_id |-> "V1", row_label |-> "C", seat_number |-> 1, tier |-> "premium"],
    [id |-> "F1", venue_id |-> "V1", row_label |-> "F", seat_number |-> 1, tier |-> "standard"],
    [id |-> "W1", venue_id |-> "V2", row_label |-> "C", seat_number |-> 1, tier |-> "premium"] }

\* The NULL of a nullable price column (vip_price REAL, premium_price REAL):
\* a number that is no price.
NULL == -1

\* Table events: the two seeded events held at the first venue.  Prices are in
\* hundredths of the currency's unit (75 is 7500), so that base_price * 1.5 is
\* a whole number.
EventsTable ==
  { [id |-> "E1", venue_id |-> "V1", base_price |-> 7500, vip_price |-> 20000, premium_price |-> 12500],
    [id |-> "E2", venue_id |-> "V1", base_price |-> 9500, vip_price |-> 30000, premium_price |-> 17500] }

SeatRowIds == {r.id : r \in SeatsTable}
EventRowIds == {r.id : r \in EventsTable}

Sessions == {"X", "Y"}

\* Request inputs of the lock, release and booking endpoints.  "ghost" is an
\* id that is no row of table seats.
ReqEvents == {"E1"}
ReqSeatIds == { <<"A1">>, <<"F1">>, <<"A1", "F1">> }
LockReqSeatIds == ReqSeatIds \cup { <<"ghost">> }

Range(seq) == {seq[i] : i \in 1..Len(seq)}

----------------------------------------------------------------------------
(* Timestamps as the texts the program stores and compares *)

\* Date.prototype.toISOString: "YYYY-MM-DDTHH:MM:SS.sssZ".  The fields are
\* fixed-width, zero-padded decimals, so text order on a field is numeric order.
toISOString(t) ==
  [date |-> t \div MinutesPerDay, sep |-> "T", time |-> t % MinutesPerDay]

\* SQLite datetime('now'): "YYYY-MM-DD HH:MM:SS" (UTC).
datetimeNow(t) ==
  [date |-> t \div MinutesPerDay, sep |-> " ", time |-> t % MinutesPerDay]

\* Code point of the character between the date and the time of day.
SepCode(c) == IF c = " " THEN 32 ELSE 84

\* SQLite's comparison of two TEXT values (BINARY collation): bytewise, left
\* to right.
TextLess(a, b) ==
  \/ a.date < b.date
  \/ a.date = b.date /\ SepCode(a.sep) < SepCode(b.sep)
  \/ a.date = b.date /\ a.sep = b.sep /\ a.time < b.time

\* The instant a stored expires_at text denotes.
ExpiryInstant(x) == x.date * MinutesPerDay + x.time

----------------------------------------------------------------------------
(* Queries *)

\* DELETE FROM seat_locks WHERE expires_at < datetime('now')
cleanExpiredLocks(locks, t) ==
  {l \in locks : ~ TextLess(l.expires_at, datetimeNow(t))}

\* bs.booking_id IN (SELECT id FROM bookings WHERE event_id = ? AND status = 'confirmed')
ConfirmedBookingIds(bks, e) ==
  {i \in 1..Len(bks) : bks[i].event_id = e /\ bks[i].status = "confirmed"}

\* LEFT JOIN booking_seats bs ... : bs.id IS NOT NULL
BookedSeat(bks, bss, e, seat) ==
  \E bs \in bss : bs.seat_id = seat /\ bs.booking_id \in ConfirmedBookingIds(bks, e)

\* Variant of LockedByOther with the expiry comparison reversed.
LockedByOther_Reversed(locks, e, seat, s, t) ==
  \E l \in locks :
    /\ l.event_id = e
    /\ l.seat_id = seat
    /\ TextLess(l.expires_at, datetimeNow(t))
    /\ l.session_id # s

\* LEFT JOIN seat_locks sl ON ... AND sl.expires_at > datetime('now'):
\* sl.id IS NOT NULL AND sl.session_id != ?
LockedByOther(locks, e, seat, s, t) ==
  \E l \in locks :
    /\ l.event_id = e
    /\ l.seat_id = seat
    /\ TextLess(datetimeNow(t), l.expires_at)
    /\ l.session_id # s

\* Variant of Unavailable without the join on booking_seats.
Unavailable_LocksOnly(locks, bks, bss, e, seatIds, s, t) ==
  { [id |-> r.id, reason |-> "locked"] :
    r \in { r \in SeatsTable :
              r.id \in Range(seatIds) /\ LockedByOther(locks, e, r.id, s, t) } }

\* The rows of the lock endpoint's `unavailable` query.
Unavailable(locks, bks, bss, e, seatIds, s, t) ==
  { [id |-> r.id,
     reason |-> IF BookedSeat(bks, bss, e, r.id) THEN "booked" ELSE "locked"] :
    r \in { r \in SeatsTable :
              /\ r.id \in Range(seatIds)
              /\ \/ BookedSeat(bks, bss, e, r.id)
                 \/ LockedByOther(locks, e, r.id, s, t) } }

\* Variant of DeleteSessionLocks that deletes nothing.
DeleteSessionLocks_Nothing(locks, e, s) == locks

\* Variant of DeleteSessionLocks without the session_id condition.
DeleteSessionLocks_WholeEvent(locks, e, s) ==
  {l \in locks : l.event_id # e}

\* DELETE FROM seat_locks WHERE event_id = ? AND session_id = ?
DeleteSessionLocks(locks, e, s) ==
  {l \in locks : ~ (l.event_id = e /\ l.session_id = s)}

\* Variant of InsertOrReplaceLock for a table with UNIQUE(seat_id): the new row
\* replaces the lock any event has on the seat.
InsertOrReplaceLock_SeatOnly(locks, row) ==
  {l \in locks : l.seat_id # row.seat_id} \cup {row}

\* INSERT OR REPLACE INTO seat_locks: a row that collides on
\* UNIQUE(event_id, seat_id) is deleted, then the new row is inserted.
InsertOrReplaceLock(locks, row) ==
  {l \in locks : ~ (l.event_id = row.event_id /\ l.seat_id = row.seat_id)} \cup {row}

\* for (const seatId of seatIds) INSERT OR REPLACE ...
RECURSIVE InsertLocks(_, _, _, _, _)
InsertLocks(locks, e, seatIds, s, expiresAt) ==
  IF seatIds = <<>> THEN locks
  ELSE InsertLocks(
         InsertOrReplaceLock(locks,
           [event_id |-> e, seat_id |-> Head(seatIds),
            session_id |-> s, expires_at |-> expiresAt]),
         e, Tail(seatIds), s, expiresAt)

\* Variant of LocksAfterAcquire that grants the requested seats that are
\* available when others are not.
LocksAfterAcquire_Partial(locks, unavailable, e, seatIds, s, expiresAt) ==
  InsertLocks(DeleteSessionLocks(locks, e, s), e,
              SelectSeq(seatIds, LAMBDA x : \A u \in unavailable : u.id # x),
              s, expiresAt)

\* Variant of LocksAfterAcquire that keeps the session's previous locks.
LocksAfterAcquire_NoDrop(locks, unavailable, e, seatIds, s, expiresAt) ==
  IF unavailable # {} THEN locks
  ELSE InsertLocks(locks, e, seatIds, s, expiresAt)

\* The lock endpoint's writes: nothing when a seat is unavailable; otherwise the
\* session's locks of the event are deleted and one lock per requested seat is
\* written.
LocksAfterAcquire(locks, unavailable, e, seatIds, s, expiresAt) ==
  IF unavailable # {} THEN locks
  ELSE InsertLocks(DeleteSessionLocks(locks, e, s), e, seatIds, s, expiresAt)

\* Variant of HeldLocks without the session_id condition.
HeldLocks_AnySession(locks, e, seatIds, s, t) ==
  {l \in locks :
     /\ l.event_id = e
     /\ l.seat_id \in Range(seatIds)
     /\ TextLess(datetimeNow(t), l.expires_at)}

\* The booking endpoint's `locks` query.
HeldLocks(locks, e, seatIds, s, t) ==
  {l \in locks :
     /\ l.event_id = e
     /\ l.session_id = s
     /\ l.seat_id \in Range(seatIds)
     /\ TextLess(datetimeNow(t), l.expires_at)}

\* JavaScript's `a || b` on a nullable number: b when a is null or 0.
Or(a, b) == IF a = NULL \/ a = 0 THEN b ELSE a

\* The price of one seat in the booking endpoint's seatPrices.
SeatPrice(event, seat) ==
  IF seat.tier = "premium"
    THEN Or(event.premium_price, (event.base_price * 3) \div 2)
  ELSE IF seat.tier = "vip"
    THEN Or(event.vip_price, event.base_price * 2)
  ELSE event.base_price

\* Variant of InsertBookingSeats that keeps one row per seat: a new row
\* replaces the row an earlier booking has for the same seat.
InsertBookingSeats_OnePerSeat(bss, seatPrices) ==
  {bs \in bss : \A sp \in seatPrices : sp.seat_id # bs.seat_id} \cup seatPrices

\* for (const sp of seatPrices) INSERT INTO booking_seats ...
InsertBookingSeats(bss, seatPrices) == bss \cup seatPrices

\* totalAmount += price, over the rows of seatPrices
RECURSIVE SumPrices(_)
SumPrices(rows) ==
  IF rows = {} THEN 0
  ELSE LET r == CHOOSE x \in rows : TRUE
       IN r.price + SumPrices(rows \ {r})

\* Variant of SeatRows that joins the booking_seats rows of every booking of
\* the event, pending ones included.
SeatRows_AnyBooking(locks, bks, bss, e, r) ==
  LET bsJoin == {bs.booking_id : bs \in {x \in bss :
                    x.seat_id = r.id /\ bks[x.booking_id].event_id = e}}
      slJoin == {l.session_id : l \in {x \in locks :
                    x.seat_id = r.id /\ x.event_id = e}}
  IN { [id |-> r.id, row_label |-> r.row_label, seat_number |-> r.seat_number,
        status |-> IF b # 0 THEN "booked"
                   ELSE IF l # "" THEN "locked" ELSE "available",
        booking_id |-> b, locked_by |-> l] :
       b \in (IF bsJoin = {} THEN {0} ELSE bsJoin),
       l \in (IF slJoin = {} THEN {""} ELSE slJoin) }

\* The rows of the seats endpoint's query for seat row r and event e: one row
\* per pair of rows the two LEFT JOINs match for the seat (booking_id 0 and
\* locked_by "" stand for the NULLs of an unmatched join).
SeatRows(locks, bks, bss, e, r) ==
  LET bsJoin == {bs.booking_id : bs \in {x \in bss :
                    /\ x.seat_id = r.id
                    /\ x.booking_id \in ConfirmedBookingIds(bks, e)}}
      slJoin == {l.session_id : l \in {x \in locks :
                    x.seat_id = r.id /\ x.event_id = e}}
  IN { [id |-> r.id, row_label |-> r.row_label, seat_number |-> r.seat_number,
        status |-> IF b # 0 THEN "booked"
                   ELSE IF l # "" THEN "locked" ELSE "available",
        booking_id |-> b, locked_by |-> l] :
       b \in (IF bsJoin = {} THEN {0} ELSE bsJoin),
       l \in (IF slJoin = {} THEN {""} ELSE slJoin) }

\* The rows of the seats endpoint's query for event e held at `venue`.
SeatsQuery(locks, bks, bss, e, venue) ==
  UNION { SeatRows(locks, bks, bss, e, r) : r \in {x \in SeatsTable : x.venue_id = venue} }

\* seatsByRow: the rows of the seats query grouped by row_label.
SeatsByRow(rows) ==
  [label \in {x.row_label : x \in rows} |-> {x \in rows : x.row_label = label}]

\* Number of payment rows of a booking; a new row's id (a fresh uuid in the
\* program) is the booking's id with the next ordinal.
PaymentCount(pays, b) == Cardinality({p \in pays : p.booking_id = b})

----------------------------------------------------------------------------
(* Responses *)

\* What the model keeps of a response: the endpoint, the HTTP status, the
\* `unavailable` list of a 409 of the lock endpoint and the bookingId of a 200
\* of the booking endpoint.
Response(op, status, unavailable, bookingId) ==
  [op |-> op, status |-> status, unavailable |-> unavailable, bookingId |-> bookingId]

Idle == [pc |-> "idle", booking_id |-> 0, amount |-> 0]

----------------------------------------------------------------------------
(* State machine *)

Init ==
  /\ now = 0
  /\ events = EventsTable
  /\ seat_locks = {}
  /\ bookings = <<>>
  /\ booking_seats = {}
  /\ payments = {}
  /\ inflight = [i \in 1..MaxInflight |-> Idle]
  /\ last = Response("none", 0, {}, 0)

\* Time passes between two handler runs.
Advance ==
  /\ \E t \in Instants : t > now /\ now' = t
  /\ UNCHANGED <<events, seat_locks, bookings, booking_seats, payments, inflight, last>>

\* setInterval(cleanExpiredLocks, 30000)
ReaperTick ==
  /\ seat_locks' = cleanExpiredLocks(seat_locks, now)
  /\ UNCHANGED <<now, events, bookings, booking_seats, payments, inflight, last>>

\* GET /api/events/:eventId/seats.  The body of a 200 is the query over the
\* tables the handler leaves: SeatsResponse.
GetSeats(e) ==
  /\ IF \A ev \in events : ev.id # e
       THEN /\ seat_locks' = seat_locks
            /\ last' = Response("seats", 404, {}, 0)
     ELSE /\ seat_locks' = cleanExpiredLocks(seat_locks, now)
          /\ last' = Response("seats", 200, {}, 0)
  /\ UNCHANGED <<now, events, bookings, booking_seats, payments, inflight>>

\* Variant of Acquire that answers after the DELETE of the session's locks,
\* before the INSERTs: the state between the drop and the grant.
Acquire_DropOnly(e, seatIds, s) ==
  LET purged == cleanExpiredLocks(seat_locks, now)
      unavailable == Unavailable(purged, bookings, booking_seats, e, seatIds, s, now)
  IN
  /\ IF seatIds = <<>>
       THEN /\ seat_locks' = seat_locks
            /\ last' = Response("lock", 400, {}, 0)
     ELSE /\ seat_locks' = IF unavailable # {} THEN purged
                            ELSE DeleteSessionLocks(purged, e, s)
          /\ last' = IF unavailable # {}
                       THEN Response("lock", 409, unavailable, 0)
                       ELSE Response("lock", 200, {}, 0)
  /\ UNCHANGED <<now, events, bookings, booking_seats, payments, inflight>>

\* POST /api/events/:eventId/seats/lock
Acquire(e, seatIds, s) ==
  LET purged == cleanExpiredLocks(seat_locks, now)
      unavailable == Unavailable(purged, bookings, booking_seats, e, seatIds, s, now)
      expiresAt == toISOString(now + LOCK_DURATION_MINUTES)
  IN
  /\ IF seatIds = <<>>
       THEN /\ seat_locks' = seat_locks
            /\ last' = Response("lock", 400, {}, 0)
     ELSE /\ seat_locks' = LocksAfterAcquire(purged, unavailable, e, seatIds, s, expiresAt)
          /\ last' = IF unavailable # {}
                       THEN Response("lock", 409, unavailable, 0)
                       ELSE Response("lock", 200, {}, 0)
  /\ UNCHANGED <<now, events, bookings, booking_seats, payments, inflight>>

\* POST /api/events/:eventId/seats/release
Release(e, s) ==
  /\ seat_locks' = DeleteSessionLocks(seat_locks, e, s)
  /\ last' = Response("release", 200, {}, 0)
  /\ UNCHANGED <<now, events, bookings, booking_seats, payments, inflight>>

\* POST /api/bookings
CreateBooking(e, seatIds, s) ==
  LET locks == HeldLocks(seat_locks, e, seatIds, s, now)
      eventRows == {ev \in events : ev.id = e}
      seats == {r \in SeatsTable : r.id \in Range(seatIds)}
      bookingId == Len(bookings) + 1
  IN
  /\ Len(bookings) < MaxBookings
  /\ IF Cardinality(locks) # Len(seatIds)
       THEN /\ last' = Response("book", 409, {}, 0)
            /\ UNCHANGED <<seat_locks, bookings, booking_seats>>
     ELSE IF eventRows = {}
       THEN /\ last' = Response("book", 404, {}, 0)
            /\ UNCHANGED <<seat_locks, bookings, booking_seats>>
     ELSE LET event == CHOOSE ev \in eventRows : TRUE
              seatPrices == {[booking_id |-> bookingId, seat_id |-> r.id,
                              price |-> SeatPrice(event, r)] : r \in seats}
          IN /\ bookings' = Append(bookings,
                   [event_id |-> e, total_amount |-> SumPrices(seatPrices),
                    status |-> "pending"])
             /\ booking_seats' = InsertBookingSeats(booking_seats, seatPrices)
             /\ seat_locks' = DeleteSessionLocks(seat_locks, e, s)
             /\ last' = Response("book", 200, {}, bookingId)
  /\ UNCHANGED <<now, events, payments, inflight>>

\* Variant of PayBegin without the `Booking already paid` check.
PayBegin_NoPaidCheck(b) ==
  /\ IF b \notin 1..Len(bookings)
       THEN /\ last' = Response("pay", 404, {}, 0)
            /\ UNCHANGED inflight
     ELSE /\ \E i \in DOMAIN inflight :
               /\ inflight[i] = Idle
               /\ \A j \in 1..(i - 1) : inflight[j] # Idle
               /\ inflight' = [inflight EXCEPT ![i] =
                    [pc |-> "charging", booking_id |-> b,
                     amount |-> bookings[b].total_amount]]
          /\ UNCHANGED last
  /\ UNCHANGED <<now, events, seat_locks, bookings, booking_seats, payments>>

\* POST /api/payments, up to `await new Promise(... setTimeout ...)`
PayBegin(b) ==
  /\ IF b \notin 1..Len(bookings)
       THEN /\ last' = Response("pay", 404, {}, 0)
            /\ UNCHANGED inflight
     ELSE IF bookings[b].status = "confirmed"
       THEN /\ last' = Response("pay", 400, {}, 0)
            /\ UNCHANGED inflight
     ELSE /\ \E i \in DOMAIN inflight :
               /\ inflight[i] = Idle
               /\ \A j \in 1..(i - 1) : inflight[j] # Idle
               /\ inflight' = [inflight EXCEPT ![i] =
                    [pc |-> "charging", booking_id |-> b,
                     amount |-> bookings[b].total_amount]]
          /\ UNCHANGED last
  /\ UNCHANGED <<now, events, seat_locks, bookings, booking_seats, payments>>

\* Variant of PayDeclined that cancels the booking's seats.
PayDeclined_FreesSeats(i) ==
  /\ inflight[i].pc = "charging"
  /\ inflight' = [inflight EXCEPT ![i] = Idle]
  /\ last' = Response("pay", 402, {}, 0)
  /\ booking_seats' = {bs \in booking_seats : bs.booking_id # inflight[i].booking_id}
  /\ UNCHANGED <<now, events, seat_locks, bookings, payments>>

\* Variant of PayDeclined that marks the booking cancelled.
PayDeclined_CancelsBooking(i) ==
  /\ inflight[i].pc = "charging"
  /\ inflight' = [inflight EXCEPT ![i] = Idle]
  /\ last' = Response("pay", 402, {}, 0)
  /\ bookings' = [bookings EXCEPT ![inflight[i].booking_id].status = "cancelled"]
  /\ UNCHANGED <<now, events, seat_locks, booking_seats, payments>>

\* POST /api/payments, after the timeout: Math.random() < 0.1
PayDeclined(i) ==
  /\ inflight[i].pc = "charging"
  /\ inflight' = [inflight EXCEPT ![i] = Idle]
  /\ last' = Response("pay", 402, {}, 0)
  /\ UNCHANGED <<now, events, seat_locks, bookings, booking_seats, payments>>

\* POST /api/payments, after the timeout: INSERT INTO payments, up to
\* `await QRCode.toDataURL`
PayCharged(i) ==
  /\ inflight[i].pc = "charging"
  /\ payments' = payments \cup
       {[id |-> <<inflight[i].booking_id, PaymentCount(payments, inflight[i].booking_id) + 1>>,
         booking_id |-> inflight[i].booking_id, amount |-> inflight[i].amount,
         status |-> "completed"]}
  /\ inflight' = [inflight EXCEPT ![i].pc = "voucher"]
  /\ UNCHANGED <<now, events, seat_locks, bookings, booking_seats, last>>

\* POST /api/payments, after the voucher: UPDATE bookings SET status = 'confirmed'
PayConfirm(i) ==
  /\ inflight[i].pc = "voucher"
  /\ bookings' = [bookings EXCEPT ![inflight[i].booking_id].status = "confirmed"]
  /\ inflight' = [inflight EXCEPT ![i] = Idle]
  /\ last' = Response("pay", 200, {}, 0)
  /\ UNCHANGED <<now, events, seat_locks, booking_seats, payments>>

Next ==
  \/ Advance
  \/ ReaperTick
  \/ \E e \in ReqEvents : GetSeats(e)
  \/ \E e \in ReqEvents, seatIds \in ReqSeatIds, s \in Sessions : Acquire(e, seatIds, s)
  \/ \E e \in ReqEvents, s \in Sessions : Release(e, s)
  \/ \E e \in ReqEvents, seatIds \in ReqSeatIds, s \in Sessions : CreateBooking(e, seatIds, s)
  \/ \E b \in 1..MaxBookings : PayBegin(b)
  \/ \E i \in DOMAIN inflight : PayDeclined(i)
  \/ \E i \in DOMAIN inflight : PayCharged(i)
  \/ \E i \in DOMAIN inflight : PayConfirm(i)

\* The whole system.
Spec == Init /\ [][Next]_vars

\* A store in which session X has locked, booked and paid seat A1 of event E1
\* at time 0; in its second form session Y locked A1 while the booking was
\* pending and still holds that lock.  Both are states Spec reaches.
PaidStore ==
  /\ now = 0
  /\ events = EventsTable
  /\ seat_locks \in
       { {},
         {[event_id |-> "E1", seat_id |-> "A1", session_id |-> "Y",
           expires_at |-> toISOString(LOCK_DURATION_MINUTES)]} }
  /\ bookings = <<[event_id |-> "E1", total_amount |-> 20000, status |-> "confirmed"]>>
  /\ booking_seats = {[booking_id |-> 1, seat_id |-> "A1", price |-> 20000]}
  /\ payments = {[id |-> <<1, 1>>, booking_id |-> 1, amount |-> 20000,
                  status |-> "completed"]}
  /\ inflight = [i \in 1..MaxInflight |-> Idle]
  /\ last = Response("pay", 200, {}, 0)

PendingBookings == {b \in 1..Len(bookings) : bookings[b].status = "pending"}

\* POST /api/bookings while fewer than MaxPendingBookings bookings are unpaid.
CreatePendingBooking(e, seatIds, s) ==
  /\ Cardinality(PendingBookings) < MaxPendingBookings
  /\ CreateBooking(e, seatIds, s)

\* The lock table's side of the system: the clock, the timer and the lock,
\* release and booking endpoints, with requests that also name an unknown
\* seat, started from the empty store or from a store with a paid booking.
LockNext ==
  \/ Advance
  \/ ReaperTick
  \/ \E e \in ReqEvents : GetSeats(e)
  \/ \E e \in ReqEvents, seatIds \in LockReqSeatIds, s \in Sessions : Acquire(e, seatIds, s)
  \/ \E e \in ReqEvents, s \in Sessions : Release(e, s)
  \/ \E e \in ReqEvents, seatIds \in LockReqSeatIds, s \in Sessions :
       CreatePendingBooking(e, seatIds, s)

SpecLock == (Init \/ PaidStore) /\ [][LockNext]_vars

\* Request inputs of the payment side: one buyer, who asks for the first seat
\* or for two seats.
PaySessions == {"X"}
PayReqSeatIds == { <<"A1">>, <<"A1", "F1">> }

\* The payment side of the system: every operation, with one buyer's requests.
PayNext ==
  \/ Advance
  \/ ReaperTick
  \/ \E e \in ReqEvents : GetSeats(e)
  \/ \E e \in ReqEvents, seatIds \in PayReqSeatIds, s \in PaySessions : Acquire(e, seatIds, s)
  \/ \E e \in ReqEvents, s \in PaySessions : Release(e, s)
  \/ \E e \in ReqEvents, seatIds \in PayReqSeatIds, s \in PaySessions :
       CreatePendingBooking(e, seatIds, s)
  \/ \E b \in 1..MaxBookings : PayBegin(b)
  \/ \E i \in DOMAIN inflight : PayDeclined(i)
  \/ \E i \in DOMAIN inflight : PayCharged(i)
  \/ \E i \in DOMAIN inflight : PayConfirm(i)

SpecPay == Init /\ [][PayNext]_vars

\* Requests of the sessions that contend for one seat.
SeatReqSeatIds == { <<"A1">> }

\* The life of one seat: every operation, with two sessions that ask for the
\* same seat.
SeatNext ==
  \/ Advance
  \/ ReaperTick
  \/ \E e \in ReqEvents : GetSeats(e)
  \/ \E e \in ReqEvents, seatIds \in SeatReqSeatIds, s \in Sessions : Acquire(e, seatIds, s)
  \/ \E e \in ReqEvents, s \in Sessions : Release(e, s)
  \/ \E e \in ReqEvents, seatIds \in SeatReqSeatIds, s \in Sessions :
       CreatePendingBooking(e, seatIds, s)
  \/ \E b \in 1..MaxBookings : PayBegin(b)
  \/ \E i \in DOMAIN inflight : PayDeclined(i)
  \/ \E i \in DOMAIN inflight : PayCharged(i)
  \/ \E i \in DOMAIN inflight : PayConfirm(i)

SpecSeat == Init /\ [][SeatNext]_vars

\* Price configurations of an event row: a base price, and each tier price
\* absent, 0 or set.
PriceConfigs ==
  { [id |-> "E1", venue_id |-> "V1", base_price |-> b, vip_price |-> v, premium_price |-> p] :
      b \in {7500, 9500}, v \in {NULL, 0, 20000}, p \in {NULL, 0, 12500} }

\* Requests for a seat of each tier, and for all three.
PriceReqSeatIds == { <<"A1">>, <<"C1">>, <<"F1">>, <<"A1", "C1", "F1">> }

\* A database file whose events table holds one event with any of the price
\* configurations; the other tables are empty.
PriceInit ==
  /\ now = 0
  /\ events \in {{ev} : ev \in PriceConfigs}
  /\ seat_locks = {}
  /\ bookings = <<>>
  /\ booking_seats = {}
  /\ payments = {}
  /\ inflight = [i \in 1..MaxInflight |-> Idle]
  /\ last = Response("none", 0, {}, 0)

\* One buyer locks seats, books them and pays.
PriceNext ==
  \/ \E e \in ReqEvents, seatIds \in PriceReqSeatIds, s \in PaySessions : Acquire(e, seatIds, s)
  \/ \E e \in ReqEvents, seatIds \in PriceReqSeatIds, s \in PaySessions :
       CreateBooking(e, seatIds, s)
  \/ \E b \in 1..MaxBookings : PayBegin(b)
  \/ \E i \in DOMAIN inflight : PayDeclined(i)
  \/ \E i \in DOMAIN inflight : PayCharged(i)
  \/ \E i \in DOMAIN inflight : PayConfirm(i)

SpecPrice == PriceInit /\ [][PriceNext]_vars

\* The payment side with room for one more suspended payment request, so that
\* two requests can be in flight at once.
SettleSlots == MaxInflight + 1

SettleInit ==
  /\ now = 0
  /\ events = EventsTable
  /\ seat_locks = {}
  /\ bookings = <<>>
  /\ booking_seats = {}
  /\ payments = {}
  /\ inflight = [i \in 1..SettleSlots |-> Idle]
  /\ last = Response("none", 0, {}, 0)

SpecSettle == SettleInit /\ [][PayNext]_vars

\* runQuery(sql, params): the table a write statement leaves.  When db.run
\* throws, the catch logs the error and returns { success: false }, and the
\* table is as it was; the callers do not look at the returned object.
runQuery(tbl, written, ok) == IF ok THEN written ELSE tbl

\* A null among the seatIds of a request body.  Its INSERT into seat_locks
\* always fails: seat_id is NOT NULL.
NullSeatId == "null"

\* Names of the write statements of one handler run: the DELETE, the INSERT
\* INTO bookings, and the INSERT of a seat id.
DeleteStmt == "DELETE"
BookingStmt == "INSERT bookings"

FaultReqSeatIds == ReqSeatIds \cup { <<"A1", NullSeatId>> }

\* The ids (fresh uuids in the program) of booking_seats rows whose booking
\* row was never written.
OrphanBookingIds == {bs.booking_id : bs \in {x \in booking_seats : x.booking_id < 0}}

\* POST /api/events/:eventId/seats/lock, when no seat is unavailable and the
\* write statements named in `failed` throw inside runQuery.
AcquireWriteFails(e, seatIds, s, failed) ==
  LET purged == cleanExpiredLocks(seat_locks, now)
      unavailable == Unavailable(purged, bookings, booking_seats, e, seatIds, s, now)
      dropped == runQuery(purged, DeleteSessionLocks(purged, e, s), DeleteStmt \notin failed)
      expiresAt == toISOString(now + LOCK_DURATION_MINUTES)
  IN
  /\ failed # {}
  /\ failed \subseteq {DeleteStmt} \cup Range(seatIds)
  /\ NullSeatId \in Range(seatIds) => NullSeatId \in failed
  /\ unavailable = {}
  /\ seat_locks' = InsertLocks(dropped, e,
                               SelectSeq(seatIds, LAMBDA x : x \notin failed),
                               s, expiresAt)
  /\ last' = Response("lock", 200, {}, 0)
  /\ UNCHANGED <<now, events, bookings, booking_seats, payments, inflight>>

\* POST /api/bookings, when the locks are held, the event exists and the write
\* statements named in `failed` throw inside runQuery.
CreateBookingWriteFails(e, seatIds, s, failed) ==
  LET locks == HeldLocks(seat_locks, e, seatIds, s, now)
      eventRows == {ev \in events : ev.id = e}
      seats == {r \in SeatsTable : r.id \in Range(seatIds)}
      bookingId == IF BookingStmt \notin failed THEN Len(bookings) + 1
                   ELSE 0 - (Cardinality(OrphanBookingIds) + 1)
  IN
  /\ Len(bookings) + Cardinality(OrphanBookingIds) < MaxBookings
  /\ failed # {}
  /\ failed \subseteq {BookingStmt, DeleteStmt} \cup {r.id : r \in seats}
  /\ Cardinality(locks) = Len(seatIds)
  /\ eventRows # {}
  /\ LET event == CHOOSE ev \in eventRows : TRUE
         seatPrices == {[booking_id |-> bookingId, seat_id |-> r.id,
                         price |-> SeatPrice(event, r)] : r \in seats}
     IN /\ bookings' = runQuery(bookings,
               Append(bookings,
                 [event_id |-> e, total_amount |-> SumPrices(seatPrices),
                  status |-> "pending"]),
               BookingStmt \notin failed)
        /\ booking_seats' = InsertBookingSeats(booking_seats,
               {sp \in seatPrices : sp.seat_id \notin failed})
        /\ seat_locks' = runQuery(seat_locks, DeleteSessionLocks(seat_locks, e, s),
                                  DeleteStmt \notin failed)
        /\ last' = Response("book", 200, {}, bookingId)
  /\ UNCHANGED <<now, events, payments, inflight>>

\* The lock and booking endpoints with write statements that can fail.
FaultNext ==
  \/ \E e \in ReqEvents, seatIds \in ReqSeatIds, s \in Sessions : Acquire(e, seatIds, s)
  \/ \E e \in ReqEvents, s \in Sessions : Release(e, s)
  \/ \E e \in ReqEvents, seatIds \in ReqSeatIds, s \in Sessions :
       CreatePendingBooking(e, seatIds, s)
  \/ \E e \in ReqEvents, seatIds \in FaultReqSeatIds, s \in Sessions :
       \E failed \in SUBSET ({DeleteStmt} \cup Range(seatIds)) :
         AcquireWriteFails(e, seatIds, s, failed)
  \/ \E e \in ReqEvents, seatIds \in ReqSeatIds, s \in Sessions :
       \E failed \in SUBSET ({BookingStmt, DeleteStmt} \cup Range(seatIds)) :
         CreateBookingWriteFails(e, seatIds, s, failed)

SpecFault == Init /\ [][FaultNext]_vars

\* Requests that name either of the two events held at the first venue.
BothEvents == {"E1", "E2"}

\* The lock table's side of the system with two events that share the seats
\* of one venue.
EventNext ==
  \/ Advance
  \/ ReaperTick
  \/ \E e \in BothEvents : GetSeats(e)
  \/ \E e \in BothEvents, seatIds \in SeatReqSeatIds, s \in Sessions : Acquire(e, seatIds, s)
  \/ \E e \in BothEvents, s \in Sessions : Release(e, s)
  \/ \E e \in BothEvents, seatIds \in SeatReqSeatIds, s \in Sessions :
       CreatePendingBooking(e, seatIds, s)

SpecEvent == (Init \/ PaidStore) /\ [][EventNext]_vars

\* POST /api/payments, after the timeout, when the INSERT INTO payments throws
\* inside runQuery (as it does when `method` is an object sql.js cannot bind):
\* the handler goes on to the voucher.
PayChargedWriteFails(i) ==
  /\ inflight[i].pc = "charging"
  /\ payments' = runQuery(payments,
       payments \cup
         {[id |-> <<inflight[i].booking_id, PaymentCount(payments, inflight[i].booking_id) + 1>>,
           booking_id |-> inflight[i].booking_id, amount |-> inflight[i].amount,
           status |-> "completed"]},
       FALSE)
  /\ inflight' = [inflight EXCEPT ![i].pc = "voucher"]
  /\ UNCHANGED <<now, events, seat_locks, bookings, booking_seats, last>>

\* POST /api/payments, when `await QRCode.toDataURL` rejects: the catch answers 500.
PayVoucherFails(i) ==
  /\ Cardinality(payments) < MaxPayments
  /\ inflight[i].pc = "voucher"
  /\ inflight' = [inflight EXCEPT ![i] = Idle]
  /\ last' = Response("pay", 500, {}, 0)
  /\ UNCHANGED <<now, events, seat_locks, bookings, booking_seats, payments>>

\* POST /api/payments, after the voucher, when the UPDATE of the booking throws
\* inside runQuery: the handler answers 200.
PayConfirmWriteFails(i) ==
  /\ Cardinality(payments) < MaxPayments
  /\ inflight[i].pc = "voucher"
  /\ bookings' = runQuery(bookings,
       [bookings EXCEPT ![inflight[i].booking_id].status = "confirmed"], FALSE)
  /\ inflight' = [inflight EXCEPT ![i] = Idle]
  /\ last' = Response("pay", 200, {}, 0)
  /\ UNCHANGED <<now, events, seat_locks, booking_seats, payments>>

\* The payment side with a payment handler whose writes and voucher can fail.
PayFaultNext ==
  \/ PayNext
  \/ \E i \in DOMAIN inflight : PayChargedWriteFails(i)
  \/ \E i \in DOMAIN inflight : PayVoucherFails(i)
  \/ \E i \in DOMAIN inflight : PayConfirmWriteFails(i)

SpecPayFault == Init /\ [][PayFaultNext]_vars

\* Requests that name an event id that is no row of table events ("E9"), an
\* id that is no seat, or the seat of the second venue.
StrayReqEvents == {"E1", "E9"}
StrayReqSeatIds == { <<"A1">>, <<"ghost">>, <<"W1">> }

\* The seats, lock, release and booking endpoints with such requests.
StrayNext ==
  \/ \E e \in StrayReqEvents : GetSeats(e)
  \/ \E e \in StrayReqEvents, seatIds \in StrayReqSeatIds, s \in Sessions :
       Acquire(e, seatIds, s)
  \/ \E e \in StrayReqEvents, s \in Sessions : Release(e, s)
  \/ \E e \in StrayReqEvents, seatIds \in StrayReqSeatIds, s \in Sessions :
       CreateBooking(e, seatIds, s)

SpecStray == Init /\ [][StrayNext]_vars

----------------------------------------------------------------------------
(* Vocabulary of the properties *)

\* The seats attached to booking b by its booking_seats rows.
SeatsOfBooking(b) == {bs.seat_id : bs \in {x \in booking_seats : x.booking_id = b}}

\* Seat `seat` is attached to a booking of event e, pending or confirmed.
AttachedToBooking(e, seat) ==
  \E b \in 1..Len(bookings) : bookings[b].event_id = e /\ seat \in SeatsOfBooking(b)

\* Seat `seat` is attached to a confirmed booking of event e.
AttachedToConfirmed(e, seat) ==
  \E b \in 1..Len(bookings) :
    /\ bookings[b].event_id = e
    /\ bookings[b].status = "confirmed"
    /\ seat \in SeatsOfBooking(b)

\* The expiry time of lock l has passed at time t.
ExpiryPassed(l, t) == t > ExpiryInstant(l.expires_at)

\* The venue of event e.
VenueOf(e) == (CHOOSE ev \in events : ev.id = e).venue_id

\* The body of the seats endpoint's 200 for event e in the present state.
SeatsResponse(e) == SeatsQuery(seat_locks, bookings, booking_seats, e, VenueOf(e))

\* The statuses the response reports for seat id `seat`.
ReportedStatuses(rows, seat) == {r.status : r \in {x \in rows : x.id = seat}}

\* Event e has a lock row on `seat` whose expiry time has not passed at t.
LiveLock(locks, e, seat, t) ==
  \E l \in locks : l.event_id = e /\ l.seat_id = seat /\ ~ (t > ExpiryInstant(l.expires_at))

\* The locks session s holds for event e in lock table `locks`.
LocksOf(locks, e, s) == {l \in locks : l.event_id = e /\ l.session_id = s}

----------------------------------------------------------------------------
(* Properties *)

\* C1: in every reachable state no (event, seat) pair is attached to more than
\* one booking of that event, pending or confirmed.
C1_NoSeatInTwoBookings ==
  \A b1, b2 \in 1..Len(bookings) :
    (b1 # b2 /\ bookings[b1].event_id = bookings[b2].event_id)
      => SeatsOfBooking(b1) \cap SeatsOfBooking(b2) = {}

\* C1, its last clause alone: no seat is attached to two confirmed bookings of
\* the same event.
C1_NoSeatInTwoConfirmedBookings ==
  \A b1, b2 \in 1..Len(bookings) :
    (/\ b1 # b2
     /\ bookings[b1].event_id = bookings[b2].event_id
     /\ bookings[b1].status = "confirmed"
     /\ bookings[b2].status = "confirmed")
      => SeatsOfBooking(b1) \cap SeatsOfBooking(b2) = {}

\* C2: an acquire for event e that names a seat attached to an existing booking
\* of e, paid or not, is rejected with 409 and grants no lock.
C2_BookingBlocksAcquire ==
  [][\A e \in ReqEvents, seatIds \in ReqSeatIds, s \in Sessions :
       (/\ \E seat \in Range(seatIds) : AttachedToBooking(e, seat)
        /\ Acquire(e, seatIds, s))
         => (last'.status = 409 /\ seat_locks' \subseteq seat_locks)]_vars

\* C3: there is at most one lock per (event, seat); and while a session's lock
\* on a seat of table seats is live, an acquire by another session that names
\* the seat gets 409, and no step puts another session's lock on the pair.
C3_OneLockNoTakeover ==
  /\ [](\A l1, l2 \in seat_locks :
          (l1.event_id = l2.event_id /\ l1.seat_id = l2.seat_id) => l1 = l2)
  /\ [][\A l \in seat_locks :
          (l.seat_id \in SeatRowIds /\ ~ ExpiryPassed(l, now))
            => /\ \A l2 \in seat_locks' :
                    (l2.event_id = l.event_id /\ l2.seat_id = l.seat_id)
                      => l2.session_id = l.session_id
               /\ \A seatIds \in LockReqSeatIds, s \in Sessions :
                    (/\ s # l.session_id
                     /\ l.seat_id \in Range(seatIds)
                     /\ last'.op = "lock"
                     /\ Acquire(l.event_id, seatIds, s))
                      => last'.status = 409]_vars

\* C3 witness: another session's acquire was rejected because of a live lock.
C3_Witness ==
  /\ last.op = "lock"
  /\ last.status = 409
  /\ \E u \in last.unavailable, l \in seat_locks :
       u.reason = "locked" /\ l.seat_id = u.id /\ ~ ExpiryPassed(l, now)

\* C4: an acquire that names a seat attached to a confirmed booking of the
\* event gets 409, lists every such seat with reason `booked` and writes no lock.
C4_BookedSeatNeverLocked ==
  [][\A e \in ReqEvents, seatIds \in LockReqSeatIds, s \in Sessions :
       (/\ \E seat \in Range(seatIds) : AttachedToConfirmed(e, seat)
        /\ last'.op = "lock"
        /\ Acquire(e, seatIds, s))
         => /\ last'.status = 409
            /\ \A seat \in Range(seatIds) :
                 AttachedToConfirmed(e, seat)
                   => [id |-> seat, reason |-> "booked"] \in last'.unavailable
            /\ seat_locks' \subseteq seat_locks]_vars

\* C4 witness: an acquire was rejected with a seat listed as `booked`.
C4_Witness ==
  /\ last.op = "lock"
  /\ last.status = 409
  /\ \E u \in last.unavailable :
       u.reason = "booked" /\ AttachedToConfirmed("E1", u.id)

\* C5: an acquire that fails with 409 writes no lock; the only locks it removes
\* are locks whose expiry has passed, so the session's own locks stay as they were.
C5_FailedAcquireGrantsNothing ==
  [][\A e \in ReqEvents, seatIds \in LockReqSeatIds, s \in Sessions :
       (last'.op = "lock" /\ last'.status = 409 /\ Acquire(e, seatIds, s))
         => /\ seat_locks' \subseteq seat_locks
            /\ \A l \in seat_locks \ seat_locks' : ExpiryPassed(l, now)
            /\ \A l \in LocksOf(seat_locks, e, s) :
                 ~ ExpiryPassed(l, now) => l \in seat_locks']_vars

\* C5 witness: an acquire for two seats failed because one of them was
\* unavailable, while the requesting session still holds a lock.
C5_Witness ==
  /\ last.op = "lock"
  /\ last.status = 409
  /\ Cardinality(last.unavailable) = 1
  /\ \E s \in Sessions :
       /\ LocksOf(seat_locks, "E1", s) # {}
       /\ \A u \in last.unavailable, l \in LocksOf(seat_locks, "E1", s) : l.seat_id # u.id
       /\ \E u \in last.unavailable, l \in seat_locks : l.seat_id = u.id /\ l.session_id # s

\* C6: after a successful acquire(e, seatIds, s) the seats of e locked by s are
\* exactly seatIds, each with the expiry request time + lock duration.
C6_AcquireSetsExactlyRequested ==
  [][\A e \in ReqEvents, seatIds \in LockReqSeatIds, s \in Sessions :
       (last'.op = "lock" /\ last'.status = 200 /\ Acquire(e, seatIds, s))
         => /\ {l.seat_id : l \in LocksOf(seat_locks', e, s)} = Range(seatIds)
            /\ \A l \in LocksOf(seat_locks', e, s) :
                 /\ ExpiryInstant(l.expires_at) = now + LOCK_DURATION_MINUTES
                 /\ l.expires_at.sep = "T"]_vars

\* C6 witness: a session holds exactly one lock, granted at the present time,
\* after a successful acquire later than the start of day 0 (the clock moved
\* since the first lock could be granted).
C6_Witness ==
  /\ last.op = "lock"
  /\ last.status = 200
  /\ now > 0
  /\ \E s \in Sessions :
       /\ Cardinality(LocksOf(seat_locks, "E1", s)) = 1
       /\ \A l \in LocksOf(seat_locks, "E1", s) :
            ExpiryInstant(l.expires_at) = now + LOCK_DURATION_MINUTES

\* C7: createBooking succeeds only if every requested seat has a lock of the
\* event owned by the session; when a requested seat has no lock or another
\* session's lock, it answers 409 and leaves bookings, booking_seats and
\* seat_locks as they were.
C7_BookingNeedsOwnLocks ==
  [][\A e \in ReqEvents, seatIds \in LockReqSeatIds, s \in Sessions :
       (last'.op = "book" /\ CreateBooking(e, seatIds, s))
         => LET held(seat) == \E l \in LocksOf(seat_locks, e, s) : l.seat_id = seat
            IN /\ (last'.status = 200 \/ bookings' # bookings)
                    => \A seat \in Range(seatIds) : held(seat)
               /\ (\E seat \in Range(seatIds) : ~ held(seat))
                    => /\ last'.status = 409
                       /\ UNCHANGED <<bookings, booking_seats, seat_locks>>]_vars

\* C7 witness: a booking request was answered 409 while another session holds
\* a lock.
C7_Witness ==
  /\ last.op = "book"
  /\ last.status = 409
  /\ seat_locks # {}

\* C8: createBooking answers 409 and creates no booking when the expiry time
\* of a requested seat's lock has passed.
C8_ExpiredLockRejected ==
  [][\A e \in ReqEvents, seatIds \in LockReqSeatIds, s \in Sessions :
       (/\ \E l \in seat_locks :
             l.event_id = e /\ l.seat_id \in Range(seatIds) /\ ExpiryPassed(l, now)
        /\ CreateBooking(e, seatIds, s))
         => (last'.status = 409 /\ bookings' = bookings)]_vars

\* C9: once the expiry time of a lock has passed and the reaper has run (the
\* lock table is as a tick leaves it), an acquire of that seat by a different
\* session succeeds.
C9_ExpiredLockReaped ==
  [][\A e \in ReqEvents, seatIds \in LockReqSeatIds, s \in Sessions :
       (/\ seat_locks = cleanExpiredLocks(seat_locks, now)
        /\ \A seat \in Range(seatIds) : ~ AttachedToBooking(e, seat)
        /\ \A l \in seat_locks :
             (l.event_id = e /\ l.seat_id \in Range(seatIds) /\ l.session_id # s)
               => ExpiryPassed(l, now)
        /\ Acquire(e, seatIds, s))
         => last'.status = 200]_vars

\* C10: release(e, s) answers 200, removes every lock s holds for e and no
\* other lock, and leaves bookings, booking_seats and payments as they were;
\* when s holds no lock for e it leaves the lock table as it was.
C10_ReleaseIdempotent ==
  [][\A e \in ReqEvents, s \in Sessions :
       (last'.op = "release" /\ Release(e, s))
         => /\ last'.status = 200
            /\ LocksOf(seat_locks', e, s) = {}
            /\ seat_locks' = seat_locks \ LocksOf(seat_locks, e, s)
            /\ LocksOf(seat_locks, e, s) = {} => seat_locks' = seat_locks
            /\ UNCHANGED <<bookings, booking_seats, payments>>]_vars

\* C10 witness: a release was answered while another session's lock and a
\* booking exist.
C10_Witness ==
  /\ last.op = "release"
  /\ last.status = 200
  /\ seat_locks # {}
  /\ Len(bookings) > 0


\* The paid stores SpecLock starts from are states of Spec: each of these is
\* reached by lock, book, (lock by Y,) pay.
PaidStore_Unlocked == PaidStore /\ seat_locks = {}
PaidStore_LockedByY == PaidStore /\ seat_locks # {}

\* The payment rows of booking b in table `pays`.
PaymentsOf(pays, b) == {p \in pays : p.booking_id = b}

\* No payment request for booking b is suspended at an await.
NoneInFlight(b) == \A i \in DOMAIN inflight : inflight[i].booking_id # b

\* C11: a settle call on a confirmed booking is answered 400 and neither
\* suspends nor writes; and once a booking is confirmed and no earlier call on
\* it is still in flight, no step adds a payment row for it or changes it.
C11_ConfirmedBookingNotRecharged ==
  /\ [][\A b \in 1..MaxBookings :
          (/\ b \in 1..Len(bookings)
           /\ bookings[b].status = "confirmed"
           /\ PayBegin(b))
            => /\ last'.op = "pay"
               /\ last'.status = 400
               /\ UNCHANGED <<payments, bookings, booking_seats, inflight>>]_vars
  /\ [][\A b \in 1..Len(bookings) :
          (bookings[b].status = "confirmed" /\ NoneInFlight(b))
            => /\ PaymentsOf(payments', b) = PaymentsOf(payments, b)
               /\ bookings'[b] = bookings[b]
               /\ NoneInFlight(b)']_vars

\* C11 witness: a settle call on a confirmed booking was answered 400.
C11_Witness ==
  /\ last.op = "pay"
  /\ last.status = 400
  /\ \E b \in 1..Len(bookings) :
       bookings[b].status = "confirmed" /\ PaymentsOf(payments, b) # {}

\* The completed payment rows of booking b.
CompletedPayments(b) == {p \in PaymentsOf(payments, b) : p.status = "completed"}

\* C12: whatever the interleaving of settle calls on a booking, at most one
\* completed payment row is ever recorded for it.
C12_AtMostOneCompletedPayment ==
  \A b \in 1..Len(bookings) : Cardinality(CompletedPayments(b)) <= 1

\* C13: a declined settle call answers 402 and leaves bookings, booking_seats,
\* seat_locks and payments as they were, with its request slot free again; a
\* settle call on a pending booking is taken up, and one that gets as far as the
\* UPDATE confirms the booking.
C13_DeclineKeepsBookingRetryable ==
  /\ [][\A i \in DOMAIN inflight :
          PayDeclined(i)
            => /\ last'.op = "pay"
               /\ last'.status = 402
               /\ UNCHANGED <<bookings, booking_seats, seat_locks, payments>>
               /\ inflight'[i] = Idle]_vars
  /\ [][\A b \in 1..MaxBookings :
          (/\ b \in 1..Len(bookings)
           /\ bookings[b].status = "pending"
           /\ PayBegin(b))
            => \E i \in DOMAIN inflight :
                 /\ inflight[i] = Idle
                 /\ inflight'[i] = [pc |-> "charging", booking_id |-> b,
                                    amount |-> bookings[b].total_amount]]_vars
  /\ [][\A i \in DOMAIN inflight :
          PayConfirm(i)
            => /\ bookings'[inflight[i].booking_id].status = "confirmed"
               /\ CompletedPayments(inflight[i].booking_id) # {}]_vars

\* C13 witness: a settle call was declined; its booking is pending with its
\* seats, has no payment row, and a lock is held.
C13_Witness ==
  /\ last.op = "pay"
  /\ last.status = 402
  /\ seat_locks # {}
  /\ \E b \in 1..Len(bookings) :
       /\ bookings[b].status = "pending"
       /\ SeatsOfBooking(b) # {}
       /\ PaymentsOf(payments, b) = {}
       /\ NoneInFlight(b)

\* C14: the seats endpoint reports a seat of the event's venue `booked` exactly
\* when it is attached to a confirmed booking of the event, otherwise `locked`
\* exactly when the event has a lock on it whose expiry has not passed,
\* otherwise `available`.
C14_ProjectionMatchesStore ==
  [][\A e \in ReqEvents :
       (last'.op = "seats" /\ last'.status = 200 /\ GetSeats(e))
         => \A r \in {x \in SeatsTable : x.venue_id = VenueOf(e)} :
              ReportedStatuses(SeatsResponse(e)', r.id) =
                { IF AttachedToConfirmed(e, r.id) THEN "booked"
                  ELSE IF LiveLock(seat_locks, e, r.id, now) THEN "locked"
                  ELSE "available" }]_vars

\* The price the pricing rule gives a seat: the tier price when the event has
\* one (0 included), else twice the base price for vip and one and a half
\* times for premium; the base price for standard.
RulePrice(event, seat) ==
  IF seat.tier = "vip"
    THEN (IF event.vip_price # NULL THEN event.vip_price ELSE event.base_price * 2)
  ELSE IF seat.tier = "premium"
    THEN (IF event.premium_price # NULL THEN event.premium_price
          ELSE (event.base_price * 3) \div 2)
  ELSE event.base_price

\* C15: for every tier and price configuration, the price recorded in a
\* booking_seats row is the pricing rule's price of the seat for the booking's
\* event.
C15_RecordedPriceFollowsRule ==
  \A bs \in booking_seats :
    \A ev \in events, r \in SeatsTable :
      (ev.id = bookings[bs.booking_id].event_id /\ r.id = bs.seat_id)
        => bs.price = RulePrice(ev, r)

\* The booking_seats rows of booking b in table bss.
RowsOfBooking(bss, b) == {bs \in bss : bs.booking_id = b}

\* C16: the booking a successful createBooking(e, seatIds, s) creates is
\* pending, has exactly one booking_seats row for each requested seat id and no
\* other row, and its total_amount is the sum of the prices of those rows.
C16_BookingHasItsSeatsAndTotal ==
  [][\A e \in ReqEvents, seatIds \in LockReqSeatIds, s \in Sessions :
       (last'.op = "book" /\ last'.status = 200 /\ CreateBooking(e, seatIds, s))
         => LET b == last'.bookingId
                rows == RowsOfBooking(booking_seats', b)
            IN /\ b = Len(bookings')
               /\ bookings'[b].status = "pending"
               /\ bookings'[b].event_id = e
               /\ {bs.seat_id : bs \in rows} = Range(seatIds)
               /\ Cardinality(rows) = Len(seatIds)
               /\ bookings'[b].total_amount = SumPrices(rows)]_vars

Reported(e, r) ==
  { [status |-> x.status,
     locked_by |-> IF x.status = "locked" THEN x.locked_by ELSE ""] :
    x \in SeatRows(cleanExpiredLocks(seat_locks, now), bookings, booking_seats, e, r) }

RepAvailable == {[status |-> "available", locked_by |-> ""]}
RepBooked == {[status |-> "booked", locked_by |-> ""]}
RepLocked(s) == {[status |-> "locked", locked_by |-> s]}

\* The step confirms a pending booking of event e that holds `seat`.
ConfirmsBookingOf(e, seat) ==
  \E b \in 1..Len(bookings) :
    /\ bookings[b].event_id = e
    /\ bookings[b].status = "pending"
    /\ bookings'[b].status = "confirmed"
    /\ seat \in SeatsOfBooking(b)

\* C18 as claimed: the reported state of a seat never goes from available to
\* booked, never from locked(S) to locked(S') while S's lock is live, and never
\* leaves booked; and no (event, seat) pair has two lock holders.
C18_ProjectedStateSequence ==
  /\ [](\A l1, l2 \in seat_locks :
          (l1.event_id = l2.event_id /\ l1.seat_id = l2.seat_id)
            => l1.session_id = l2.session_id)
  /\ [][\A e \in ReqEvents :
          \A r \in {x \in SeatsTable : x.venue_id = VenueOf(e)} :
            LET before == Reported(e, r)
                after == Reported(e, r)'
            IN before # after
                 => /\ before = RepAvailable => after # RepBooked
                    /\ \A s \in Sessions :
                         before = RepLocked(s)
                           => \/ after \in {RepAvailable, RepBooked}
                              \/ ~ LiveLock(seat_locks, e, r.id, now)
                    /\ before # RepBooked]_vars

\* C18 as amended: the reported state of a seat becomes booked only in a step
\* that confirms a pending booking holding the seat, never goes from locked(S)
\* to locked(S') while S's lock is live, and never leaves booked; and no
\* (event, seat) pair has two lock holders.
C18_BookedOnlyByConfirmation ==
  /\ [](\A l1, l2 \in seat_locks :
          (l1.event_id = l2.event_id /\ l1.seat_id = l2.seat_id)
            => l1.session_id = l2.session_id)
  /\ [][\A e \in ReqEvents :
          \A r \in {x \in SeatsTable : x.venue_id = VenueOf(e)} :
            LET before == Reported(e, r)
                after == Reported(e, r)'
            IN before # after
                 => /\ after = RepBooked => ConfirmsBookingOf(e, r.id)
                    /\ \A s \in Sessions :
                         before = RepLocked(s)
                           => \/ after \in {RepAvailable, RepBooked}
                              \/ ~ LiveLock(seat_locks, e, r.id, now)
                    /\ before # RepBooked]_vars

\* C18 witness: a seat is reported booked right after the payment that
\* confirmed its booking, while another booking or a lock on it exists.
C18_Witness ==
  /\ last.op = "pay"
  /\ last.status = 200
  /\ \E r \in SeatsTable : r.id = "A1" /\ Reported("E1", r) = RepBooked
  /\ \/ LocksOf(seat_locks, "E1", "Y") # {}
     \/ Len(bookings) >= 2

\* C19: a step changes the status of a booking only from pending to confirmed,
\* so a confirmed booking stays confirmed; no step removes a booking or one of
\* its booking_seats rows; and a seat reported booked is reported booked after
\* every step.
C19_ConfirmedIsFinal ==
  [][/\ \A b \in 1..Len(bookings) :
          /\ b \in 1..Len(bookings')
          /\ bookings'[b].event_id = bookings[b].event_id
          /\ \/ bookings'[b].status = bookings[b].status
             \/ bookings[b].status = "pending" /\ bookings'[b].status = "confirmed"
          /\ RowsOfBooking(booking_seats, b) \subseteq RowsOfBooking(booking_seats', b)
     /\ \A e \in ReqEvents :
          \A r \in {x \in SeatsTable : x.venue_id = VenueOf(e)} :
            Reported(e, r) = RepBooked => Reported(e, r)' = RepBooked]_vars

\* C19 witness: a lock, release, booking or listing request was answered after
\* a booking was confirmed; the booking is still confirmed and its seat is
\* reported booked.
C19_Witness ==
  /\ last.op \in {"lock", "release", "book", "seats"}
  /\ now > 0
  /\ \E b \in 1..Len(bookings) :
       /\ bookings[b].status = "confirmed"
       /\ \A r \in SeatsTable :
            r.id \in SeatsOfBooking(b) => Reported(bookings[b].event_id, r) = RepBooked
       /\ SeatsOfBooking(b) # {}

\* C20: a successful createBooking(e, seatIds, s) is one step: in the state it
\* starts from, s holds a lock of e on every requested seat; in the state it
\* leaves, the booking exists, s holds no lock of e, and every other lock is
\* as it was.
C20_BookingStepIndivisible ==
  [][\A e \in ReqEvents, seatIds \in LockReqSeatIds, s \in Sessions :
       (last'.op = "book" /\ last'.status = 200 /\ CreateBooking(e, seatIds, s))
         => /\ \A seat \in Range(seatIds) :
                 \E l \in LocksOf(seat_locks, e, s) : l.seat_id = seat
            /\ Len(bookings') = Len(bookings) + 1
            /\ bookings'[Len(bookings')].event_id = e
            /\ \A b \in 1..Len(bookings) : bookings'[b] = bookings[b]
            /\ LocksOf(seat_locks', e, s) = {}
            /\ seat_locks' = seat_locks \ LocksOf(seat_locks, e, s)
            /\ UNCHANGED <<payments, inflight, now>>]_vars

\* C20 witness: a booking was created while the other session holds a lock,
\* which is still there.
C20_Witness ==
  /\ last.op = "book"
  /\ last.status = 200
  /\ last.bookingId = Len(bookings)
  /\ \E s \in Sessions :
       /\ LocksOf(seat_locks, "E1", s) # {}
       /\ \A l \in seat_locks : l.session_id = s

\* C21: a successful acquire is one step.  No requested seat was unavailable in
\* the state it starts from; it changes nothing but the lock table; and in the
\* state it leaves the session holds a lock on every requested seat, so no
\* state shows the seats between the drop and the grant: a requested seat of
\* the event's venue is reported locked by the session, and an acquire by
\* another session at the same time that names the seat gets 409.
C21_AcquireIndivisible ==
  [][\A e \in ReqEvents, seatIds \in LockReqSeatIds, s \in Sessions :
       (last'.op = "lock" /\ last'.status = 200 /\ Acquire(e, seatIds, s))
         => LET after == cleanExpiredLocks(seat_locks', now)
            IN /\ UNCHANGED <<now, bookings, booking_seats, payments, inflight>>
               /\ Unavailable(cleanExpiredLocks(seat_locks, now), bookings,
                              booking_seats, e, seatIds, s, now) = {}
               /\ \A seat \in Range(seatIds) :
                    \E l \in LocksOf(seat_locks', e, s) : l.seat_id = seat
               /\ \A r \in SeatsTable :
                    (r.id \in Range(seatIds) /\ r.venue_id = VenueOf(e))
                      => /\ \A x \in SeatRows(after, bookings, booking_seats, e, r) :
                              x.status = "locked" /\ x.locked_by = s
                         /\ \A s2 \in Sessions \ {s} :
                              Unavailable(after, bookings, booking_seats, e,
                                          <<r.id>>, s2, now) # {}]_vars

\* C21 witness: of two acquires for the same seat at the same time the second
\* was answered 409 because of the lock the first was granted.
C21_Witness ==
  /\ last.op = "lock"
  /\ last.status = 409
  /\ \E u \in last.unavailable, l \in seat_locks :
       /\ u.reason = "locked"
       /\ l.seat_id = u.id
       /\ ExpiryInstant(l.expires_at) = now + LOCK_DURATION_MINUTES

\* C22: when a write statement of acquire or createBooking fails, the caller
\* gets an error (500) and the lock, booking and booking_seats tables are as
\* they were before the call (locks whose expiry had passed aside).
C22_FailedWriteLeavesTablesUnchanged ==
  [][/\ \A e \in ReqEvents, seatIds \in FaultReqSeatIds, s \in Sessions :
          \A failed \in SUBSET ({DeleteStmt} \cup Range(seatIds)) :
            (last'.op = "lock" /\ AcquireWriteFails(e, seatIds, s, failed))
              => /\ last'.status = 500
                 /\ seat_locks' = cleanExpiredLocks(seat_locks, now)
     /\ \A e \in ReqEvents, seatIds \in ReqSeatIds, s \in Sessions :
          \A failed \in SUBSET ({BookingStmt, DeleteStmt} \cup Range(seatIds)) :
            (last'.op = "book" /\ CreateBookingWriteFails(e, seatIds, s, failed))
              => /\ last'.status = 500
                 /\ UNCHANGED <<seat_locks, bookings, booking_seats>>]_vars

\* The locks of table `locks` that belong to events other than e.
LocksOfOtherEvents(locks, e) == {l \in locks : l.event_id # e}

\* Every seat a 409 of an acquire for event e lists is attached to a confirmed
\* booking of e or has a lock of e held by another session.
RefusedByOwnEvent(e, s) ==
  \A u \in last'.unavailable :
    \/ AttachedToConfirmed(e, u.id)
    \/ \E l \in seat_locks : l.event_id = e /\ l.seat_id = u.id /\ l.session_id # s

\* C23 as claimed: an acquire for event e is refused only because of bookings
\* and locks of e; and an acquire, release or createBooking for e leaves the
\* locks of every other event exactly as they were.
C23_LocksScopedPerEvent ==
  [][\A e \in BothEvents, s \in Sessions :
       /\ \A seatIds \in SeatReqSeatIds :
            (last'.op = "lock" /\ Acquire(e, seatIds, s))
              => /\ last'.status = 409 => RefusedByOwnEvent(e, s)
                 /\ LocksOfOtherEvents(seat_locks', e) = LocksOfOtherEvents(seat_locks, e)
       /\ (last'.op = "release" /\ Release(e, s))
            => LocksOfOtherEvents(seat_locks', e) = LocksOfOtherEvents(seat_locks, e)
       /\ \A seatIds \in SeatReqSeatIds :
            (last'.op = "book" /\ CreateBooking(e, seatIds, s))
              => LocksOfOtherEvents(seat_locks', e) = LocksOfOtherEvents(seat_locks, e)]_vars

\* C23 as amended: an acquire for event e is refused only because of bookings
\* and locks of e; an acquire, release or createBooking for e writes no lock of
\* another event and removes none whose expiry has not passed.
C23_LiveLocksScopedPerEvent ==
  [][\A e \in BothEvents, s \in Sessions :
       /\ \A seatIds \in SeatReqSeatIds :
            (last'.op = "lock" /\ Acquire(e, seatIds, s))
              => /\ last'.status = 409 => RefusedByOwnEvent(e, s)
                 /\ LocksOfOtherEvents(seat_locks', e) \subseteq LocksOfOtherEvents(seat_locks, e)
                 /\ \A l \in LocksOfOtherEvents(seat_locks, e) :
                      ~ ExpiryPassed(l, now) => l \in seat_locks'
       /\ (last'.op = "release" /\ Release(e, s))
            => LocksOfOtherEvents(seat_locks', e) = LocksOfOtherEvents(seat_locks, e)
       /\ \A seatIds \in SeatReqSeatIds :
            (last'.op = "book" /\ CreateBooking(e, seatIds, s))
              => LocksOfOtherEvents(seat_locks', e) = LocksOfOtherEvents(seat_locks, e)]_vars

\* C23 witness: an acquire on a seat for the second event succeeded while the
\* first event has a confirmed booking on the seat and another session's live
\* lock on it, which is still there.
C23_Witness ==
  /\ last.op = "lock"
  /\ last.status = 200
  /\ AttachedToConfirmed("E1", "A1")
  /\ \E l1, l2 \in seat_locks :
       /\ l1.event_id = "E1" /\ l1.seat_id = "A1" /\ ~ ExpiryPassed(l1, now)
       /\ l2.event_id = "E2" /\ l2.seat_id = "A1" /\ l2.session_id # l1.session_id
       /\ ExpiryInstant(l2.expires_at) = now + LOCK_DURATION_MINUTES

\* C24: in every reachable state a confirmed booking has a completed payment
\* row, and a booking without one is pending; so a settle call whose voucher or
\* booking update fails leaves no booking confirmed without a completed payment.
C24_ConfirmedHasCompletedPayment ==
  \A b \in 1..Len(bookings) :
    /\ bookings[b].status = "confirmed" => CompletedPayments(b) # {}
    /\ CompletedPayments(b) = {} => bookings[b].status = "pending"

\* Event e is a row of table events and `seat` is a seat of its venue.
SeatOfEventVenue(e, seat) ==
  \E ev \in events, r \in SeatsTable :
    ev.id = e /\ r.id = seat /\ r.venue_id = ev.venue_id

\* C25: an acquire that names an unknown event, an unknown seat id or a seat of
\* another venue is not answered 200 and writes no lock on the pair; and no
\* createBooking succeeds on such a pair.
C25_LockOnlyOnSeatOfEventVenue ==
  [][\A e \in StrayReqEvents, seatIds \in StrayReqSeatIds, s \in Sessions :
       (\E seat \in Range(seatIds) : ~ SeatOfEventVenue(e, seat))
         => /\ (last'.op = "lock" /\ Acquire(e, seatIds, s))
                 => /\ last'.status # 200
                    /\ \A l \in seat_locks' \ seat_locks :
                         SeatOfEventVenue(l.event_id, l.seat_id)
            /\ (last'.op = "book" /\ CreateBooking(e, seatIds, s))
                 => /\ last'.status # 200
                    /\ bookings' = bookings]_vars

\* What the seats endpoint would return for event e if called in the present
\* state: the query over the purged lock table.
Project(e) ==
  SeatsQuery(cleanExpiredLocks(seat_locks, now), bookings, booking_seats, e, VenueOf(e))

\* C26: in every reachable state the seats endpoint returns every seat of the
\* event's venue exactly once and no other seat, in the flat list and in the
\* group of the seat's row.
C26_EverySeatExactlyOnce ==
  \A e \in ReqEvents :
    LET rows == Project(e)
        groups == SeatsByRow(rows)
    IN /\ {x.id : x \in rows} = {r.id : r \in {y \in SeatsTable : y.venue_id = VenueOf(e)}}
       /\ \A r \in {y \in SeatsTable : y.venue_id = VenueOf(e)} :
            /\ Cardinality({x \in rows : x.id = r.id}) = 1
            /\ r.row_label \in DOMAIN groups
            /\ Cardinality({x \in groups[r.row_label] : x.id = r.id}) = 1


====
